---------------------------- MODULE Spec2Model ----------------------------
(***************************************************************************)
(* Model of the authentication and session subsystem of deployment-agent   *)
(* (package auth, middleware.Protected, handlers.AuthHandler).             *)
(*                                                                         *)
(* Time is counted in clock ticks; TicksPerSecond ticks make one second.   *)
(* A JWT carries its exp and iat claims in whole Unix seconds              *)
(* (expiresAt.Unix()), so Unix() below is a floor division, not the        *)
(* identity.  A signed token string is the record                          *)
(* [sig |-> signing key, claims |-> claim set]; the random token_id of a   *)
(* refresh token is drawn from a counter (crypto/rand never repeats).      *)
(***************************************************************************)
EXTENDS Integers, Sequences, FiniteSets, TLC

\* ------------------------------------------------------------------ bounds
TicksPerSecond == 2
MaxTime == 3
MaxIssued == 2
MaxDuration == 3
MaxContainers == 2

Threads == {"g1", "g2"}

\* ------------------------------------------------------------ input domains
AdminUsername == "admin"
AdminPassword == "devpass123"
OtherUsername == "operator"
OtherPassword == "hunter2hunter2"
Usernames == {AdminUsername, OtherUsername, "mallory"}
Passwords == {AdminPassword, OtherPassword}
UserAgents == {"curl"}

DefaultAccessSecret == "default-access-secret-change-this-in-production"
DefaultRefreshSecret == "default-refresh-secret-change-this-in-production"
ForeignSecret == "attacker-secret"

\* A duration string is the sequence of its parts: << 5, "m" >> is "5m",
\* << >> is the empty string, << "abc" >> has no number.  Next to Go's
\* units there is "tick", the sub-second unit of the model's clock.
DefaultAccessDuration == << 5, "m" >>
DefaultRefreshDuration == << 168, "h" >>
InvalidDuration == << "abc" >>
Ticks(n) == << n, "tick" >>

DurationUnits == {"tick", "s", "m", "h"}
UnitTicks(unit) ==
    CASE unit = "tick" -> 1
      [] unit = "s" -> TicksPerSecond
      [] unit = "m" -> 60 * TicksPerSecond
      [] unit = "h" -> 3600 * TicksPerSecond

\* time.ParseDuration: the duration in ticks, and whether err == nil; the
\* duration is 0 when err # nil
ParseDuration(str) ==
    IF Len(str) = 2 /\ str[2] \in DurationUnits
    THEN [d |-> str[1] * UnitTicks(str[2]), ok |-> TRUE]
    ELSE [d |-> 0, ok |-> FALSE]

\* The environment the process is started with; a variable that is unset
\* is "" (<< >> for a duration).
ServingEnvs ==
    { [ADMIN_USERNAME |-> AdminUsername, ADMIN_PASSWORD |-> AdminPassword,
       JWT_ACCESS_SECRET |-> "", JWT_REFRESH_SECRET |-> "",
       ACCESS_TOKEN_DURATION |-> Ticks(MaxTime - 2),
       REFRESH_TOKEN_DURATION |-> Ticks(MaxTime - 1)] }

\* environments of a process whose refresh secret is replaced while it runs
RekeyEnvs ==
    { [env EXCEPT !.JWT_REFRESH_SECRET = k] :
         env \in ServingEnvs, k \in {"", "rotated-refresh-secret"} }

\* environments for the guarded endpoints: the secrets unset or both set to
\* the same value
GuardEnvs ==
    { [ADMIN_USERNAME |-> AdminUsername, ADMIN_PASSWORD |-> AdminPassword,
       JWT_ACCESS_SECRET |-> k, JWT_REFRESH_SECRET |-> k,
       ACCESS_TOKEN_DURATION |-> Ticks(MaxDuration - 1),
       REFRESH_TOKEN_DURATION |-> Ticks(MaxDuration + 1)] :
         k \in {"", "one-secret-for-both"} }

\* environments for the start of the process: every variable set, unset or
\* set badly, and every order of the two durations
StartupEnvs ==
    [ADMIN_USERNAME : {"", AdminUsername},
     ADMIN_PASSWORD : {"", "1234567", "12345678"},
     JWT_ACCESS_SECRET : {"", "configured-access-secret"},
     JWT_REFRESH_SECRET : {"", "configured-refresh-secret"},
     ACCESS_TOKEN_DURATION :
        {<< >>, InvalidDuration} \cup {Ticks(n) : n \in MaxDuration - 1 .. MaxDuration},
     REFRESH_TOKEN_DURATION :
        {<< >>, InvalidDuration} \cup {Ticks(n) : n \in MaxDuration - 1 .. MaxDuration}]

\* --------------------------------------------------------------- variables
VARIABLES
    environ,               \* the process environment (os.Getenv)
    startup,               \* what InitializeUsers and Initialize returned
    users,                 \* auth.users: username -> User
    AccessTokenAuth,       \* signing key of the access family
    RefreshTokenAuth,      \* signing key of the refresh family
    AccessTokenDuration,   \* in ticks
    RefreshTokenDuration,  \* in ticks
    sessions,              \* sessionStore.sessions: key -> Session
    now,                   \* the wall clock, in ticks
    nextTokenID,           \* the next value crypto/rand yields
    pc,                    \* per goroutine: position in its handler
    req,                   \* per goroutine: the request being served
    loc,                   \* per goroutine: locals of CreateSession / RefreshSession
    out,                   \* the last request answered, with its response
    issuedRefresh,         \* history: refresh tokens returned to clients
    issuedAccess,          \* history: access tokens returned to clients
    accessExpiry,          \* history: what GenerateAccessToken returned
    successors,            \* history: presented token -> tokens rotated from it
    revokedAll,            \* history: tokens issued to u before RevokeAllUserSessions(u)
    revokedOne,            \* history: the calls of RevokeSession from outside a refresh
    containers,            \* the docker daemon's containers, in listing order
    ensure,                \* what the last call of EnsureTraefik did and returned
    mu,                    \* sessionStore.mu: its writer and its readers
    lk                     \* per goroutine: its position in a locked section

vars == << environ, startup, users, AccessTokenAuth, RefreshTokenAuth, AccessTokenDuration,
           RefreshTokenDuration, sessions, now, nextTokenID, pc, req, loc,
           out, issuedRefresh, issuedAccess, accessExpiry, successors,
           revokedAll, revokedOne, containers, ensure, mu, lk >>

config == << environ, startup, users, AccessTokenAuth, RefreshTokenAuth, AccessTokenDuration,
             RefreshTokenDuration >>
history == << issuedRefresh, issuedAccess, accessExpiry, successors, revokedAll >>

\* what the request handlers of the auth service never touch
aside == << revokedOne, containers, ensure, mu, lk >>

\* ------------------------------------------------------------ pure helpers

\* Go maps: the empty map, m[k] = v, delete(m, k)
EmptyMap == [k \in {} |-> 0]
MapPut(m, k, v) == [x \in DOMAIN m \cup {k} |-> IF x = k THEN v ELSE m[x]]
MapDelete(m, k) == [x \in DOMAIN m \ {k} |-> m[x]]

\* time.Time.Unix(): whole seconds since the epoch.
Unix(t) == t \div TicksPerSecond

\* bcrypt.GenerateFromPassword / CompareHashAndPassword.
BcryptHash(password) == << "$2a$10$", password >>
BcryptCompare(hash, password) == hash = BcryptHash(password)

\* jwtauth.JWTAuth.Encode: sign a claim set with the instance's key.
Encode(key, claims) == [sig |-> key, claims |-> claims]

\* strings that are no JWT at all
Malformed == [garbage |-> "not-a-jwt"]
EmptyValue == [garbage |-> ""]

WellFormed(tokenString) == "sig" \in DOMAIN tokenString

\* jwtauth.JWTAuth.Decode: parse and verify the signature; claims are NOT
\* validated (jwt.WithValidate(false)).  TRUE when err == nil.
DecodeOK(key, tokenString) ==
    WellFormed(tokenString) /\ tokenString.sig = key

\* ValidateOK with the expiry compared inclusively
ValidateOK_Inclusive(claims, t) ==
    /\ ("exp" \in DOMAIN claims => Unix(t) <= claims.exp)
    /\ ("iat" \in DOMAIN claims => claims.iat <= Unix(t))

\* jwt.Validate: exp must lie strictly after the current second, iat must
\* not lie in the future.
ValidateOK(claims, t) ==
    /\ ("exp" \in DOMAIN claims => Unix(t) < claims.exp)
    /\ ("iat" \in DOMAIN claims => claims.iat <= Unix(t))

\* jwtauth.VerifyToken: Decode, then jwt.Validate.
VerifyTokenOK(key, tokenString, t) ==
    DecodeOK(key, tokenString) /\ ValidateOK(tokenString.claims, t)

\* auth.hashToken
hashToken(token) == token

\* ValidateCredentials telling an unknown user from a wrong password
ValidateCredentials_Enumerating(username, password) ==
    IF username \notin DOMAIN users
    THEN "user not found"
    ELSE IF ~BcryptCompare(users[username].PasswordHash, password)
         THEN "invalid credentials"
         ELSE ""

\* auth.ValidateCredentials: the error it returns, "" for nil.
ValidateCredentials(username, password) ==
    IF username \notin DOMAIN users
    THEN "invalid credentials"
    ELSE IF ~BcryptCompare(users[username].PasswordHash, password)
         THEN "invalid credentials"
         ELSE ""

\* auth.AddUser, as a function of the map: the map after the call.
AddUser(us, username, password) ==
    IF username \in DOMAIN us
    THEN us
    ELSE [u \in DOMAIN us \cup {username} |->
            IF u = username
            THEN [Username |-> username, PasswordHash |-> BcryptHash(password)]
            ELSE us[u]]

\* auth.InitializeUsers: the error it returns, "" for nil.
InitializeUsersErr(adminUsername, adminPassword) ==
    IF adminUsername = ""
    THEN "ADMIN_USERNAME environment variable is required"
    ELSE IF adminPassword = ""
         THEN "ADMIN_PASSWORD environment variable is required"
         ELSE IF Len(adminPassword) < 8
              THEN "ADMIN_PASSWORD must be at least 8 characters long"
              ELSE ""

\* InitializeUsers without the check of the password length
InitializeUsers_NoLength(us, adminUsername, adminPassword) ==
    IF adminUsername = "" \/ adminPassword = ""
    THEN us
    ELSE [u \in DOMAIN us \cup {adminUsername} |->
            IF u = adminUsername
            THEN [Username |-> adminUsername,
                  PasswordHash |-> BcryptHash(adminPassword)]
            ELSE us[u]]

\* auth.InitializeUsers, as a function of the map: the map after the call.
InitializeUsers(us, adminUsername, adminPassword) ==
    IF adminUsername = "" \/ adminPassword = "" \/ Len(adminPassword) < 8
    THEN us
    ELSE [u \in DOMAIN us \cup {adminUsername} |->
            IF u = adminUsername
            THEN [Username |-> adminUsername,
                  PasswordHash |-> BcryptHash(adminPassword)]
            ELSE us[u]]

\* auth.GenerateAccessToken at time t: the token string and expiresAt
GenerateAccessToken(username, t) ==
    LET expiresAt == t + AccessTokenDuration
    IN  [tokenString |-> Encode(AccessTokenAuth,
                                [username |-> username,
                                 exp |-> Unix(expiresAt),
                                 iat |-> Unix(t)]),
         expiresAt |-> expiresAt]

\* GenerateRefreshToken without the random token_id claim
GenerateRefreshToken_NoTokenID(username, t, tid) ==
    Encode(RefreshTokenAuth,
           [username |-> username,
            exp |-> Unix(t + RefreshTokenDuration),
            iat |-> Unix(t)])

\* GenerateRefreshToken giving every token the same token_id
GenerateRefreshToken_FixedTokenID(username, t, tid) ==
    Encode(RefreshTokenAuth,
           [username |-> username,
            token_id |-> 0,
            exp |-> Unix(t + RefreshTokenDuration),
            iat |-> Unix(t)])

\* auth.GenerateRefreshToken at time t, generateRandomString yielding tid:
\* the token string
GenerateRefreshToken(username, t, tid) ==
    LET expiresAt == t + RefreshTokenDuration
    IN  Encode(RefreshTokenAuth,
               [username |-> username,
                token_id |-> tid,
                exp |-> Unix(expiresAt),
                iat |-> Unix(t)])

\* the Session value CreateSession builds
NewSession(username, refreshToken, userAgent, t) ==
    [Username |-> username,
     RefreshTokenHash |-> hashToken(refreshToken),
     CreatedAt |-> t,
     LastUsedAt |-> t,
     UserAgent |-> userAgent]

\* StoreSession keeping one session per user: no insert when the user has one
StoreSession_OnePerUser(m, session) ==
    IF \E k \in DOMAIN m : m[k].Username = session.Username
    THEN m
    ELSE MapPut(m, session.RefreshTokenHash, session)

\* StoreSession writing back a map that holds the new session only: what
\* an insert into a stale copy of the map would leave
StoreSession_Replacing(m, session) ==
    MapPut(EmptyMap, session.RefreshTokenHash, session)

\* the insert of CreateSession, under sessionStore.mu.Lock()
StoreSession(m, session) == MapPut(m, session.RefreshTokenHash, session)

\* ----------------------------------------------------------------- records
NoCookies == EmptyMap
NoReq == [op |-> "none", username |-> "", password |-> "",
          cookies |-> NoCookies, userAgent |-> ""]
NoLoc == [tokenHash |-> EmptyValue, username |-> "",
          accessToken |-> EmptyValue, refreshToken |-> EmptyValue]
NoResp == [status |-> 0, body |-> "", username |-> "", err |-> "",
           cookies |-> NoCookies, next |-> FALSE]
NoOut == [req |-> NoReq, resp |-> NoResp]

\* http.Error(w, body, status); err is the error the handler was given
HttpError(status, body, err, cookies) ==
    [status |-> status, body |-> body, username |-> "", err |-> err,
     cookies |-> cookies, next |-> FALSE]

\* AuthHandler.clearAuthCookies: both cookies set to "" with MaxAge -1
clearAuthCookies ==
    [n \in {"access_token", "refresh_token"} |-> EmptyValue]

\* the two Set-Cookie headers of a successful login or refresh
AuthCookies(accessToken, refreshToken) ==
    [n \in {"access_token", "refresh_token"} |->
       IF n = "access_token" THEN accessToken ELSE refreshToken]

\* goroutine t has answered request r with response w and is free again
Answer(t, r, w) ==
    /\ out' = [req |-> r, resp |-> w]
    /\ pc' = [pc EXCEPT ![t] = "idle"]
    /\ req' = [req EXCEPT ![t] = NoReq]
    /\ loc' = [loc EXCEPT ![t] = NoLoc]

\* -------------------------------------------------------------------- Init
\* the values of the package variables before Initialize, and of the
\* startup record before either function was called
NilAuth == "<nil>"
NotCalled == "not called"

\* auth.Initialize with environment env, called once on the zero values:
\* what it leaves in the four package variables, and the error it returns
\* ("" for nil).  The codecs are built before the durations are parsed.
InitializeResult(env) ==
    LET accessSecret == IF env.JWT_ACCESS_SECRET = ""
                        THEN DefaultAccessSecret
                        ELSE env.JWT_ACCESS_SECRET
        refreshSecret == IF env.JWT_REFRESH_SECRET = ""
                         THEN DefaultRefreshSecret
                         ELSE env.JWT_REFRESH_SECRET
        accessDuration == IF env.ACCESS_TOKEN_DURATION = << >>
                          THEN DefaultAccessDuration
                          ELSE env.ACCESS_TOKEN_DURATION
        refreshDuration == IF env.REFRESH_TOKEN_DURATION = << >>
                           THEN DefaultRefreshDuration
                           ELSE env.REFRESH_TOKEN_DURATION
        a == ParseDuration(accessDuration)
        r == ParseDuration(refreshDuration)
    IN  [AccessTokenAuth |-> accessSecret,
         RefreshTokenAuth |-> refreshSecret,
         AccessTokenDuration |-> a.d,
         RefreshTokenDuration |-> IF a.ok THEN r.d ELSE 0,
         err |-> IF ~a.ok THEN "invalid ACCESS_TOKEN_DURATION"
                 ELSE IF ~r.ok THEN "invalid REFRESH_TOKEN_DURATION"
                 ELSE ""]

\* the configuration the process runs with when it was started with env
Initialize(env) ==
    LET r == InitializeResult(env)
    IN  /\ environ = env
        /\ startup = [InitializeUsers |->
                         InitializeUsersErr(env.ADMIN_USERNAME, env.ADMIN_PASSWORD),
                      Initialize |-> r.err]
        /\ AccessTokenAuth = r.AccessTokenAuth
        /\ RefreshTokenAuth = r.RefreshTokenAuth
        /\ AccessTokenDuration = r.AccessTokenDuration
        /\ RefreshTokenDuration = r.RefreshTokenDuration

\* the goroutines that reach the session map: the request handlers and the
\* one started by Initialize
Goroutines == Threads \cup {"cleanup"}

\* the zero value of sync.RWMutex, and a goroutine outside every locked section
Unlocked == [writer |-> "", readers |-> {}]
Outside == [op |-> "", phase |-> "out"]

\* EnsureTraefik not called yet: nothing returned, no start issued
NoEnsure == [called |-> FALSE, err |-> "", started |-> << >>]

\* nothing outside the request handlers has happened: no direct call of
\* RevokeSession, no container known, EnsureTraefik not called, the lock free
Quiet ==
    /\ revokedOne = {}
    /\ containers = << >>
    /\ ensure = NoEnsure
    /\ mu = Unlocked
    /\ lk = [g \in Goroutines |-> Outside]

\* the auth package when the server starts to accept requests: Initialize,
\* InitializeUsers and one AddUser have run, nothing else has
ServingAuth ==
    /\ users = AddUser(InitializeUsers(EmptyMap, AdminUsername, AdminPassword),
                       OtherUsername, OtherPassword)
    /\ sessions = EmptyMap
    /\ now = 0
    /\ nextTokenID = 1
    /\ pc = [t \in Threads |-> "idle"]
    /\ req = [t \in Threads |-> NoReq]
    /\ loc = [t \in Threads |-> NoLoc]
    /\ out = NoOut
    /\ issuedRefresh = {}
    /\ issuedAccess = {}
    /\ accessExpiry = {}
    /\ successors = EmptyMap
    /\ revokedAll = {}

\* the state in which the server starts to accept requests
Serving == ServingAuth /\ Quiet

Init == (\E env \in ServingEnvs : Initialize(env)) /\ Serving

\* the session a login of the admin at time 0 leaves behind
FirstRefreshToken == GenerateRefreshToken(AdminUsername, 0, 0)
FirstAccessToken == GenerateAccessToken(AdminUsername, 0)

\* the auth package at time at, after one login of the admin at time 0 has
\* been answered
LoggedInAuth(at) ==
    /\ users = AddUser(InitializeUsers(EmptyMap, AdminUsername, AdminPassword),
                       OtherUsername, OtherPassword)
    /\ sessions = StoreSession(EmptyMap,
                     NewSession(AdminUsername, FirstRefreshToken, "curl", 0))
    /\ now = at
    /\ nextTokenID = 1
    /\ pc = [t \in Threads |-> "idle"]
    /\ req = [t \in Threads |-> NoReq]
    /\ loc = [t \in Threads |-> NoLoc]
    /\ out = NoOut
    /\ issuedRefresh = {FirstRefreshToken}
    /\ issuedAccess = {FirstAccessToken.tokenString}
    /\ accessExpiry = {FirstAccessToken}
    /\ successors = EmptyMap
    /\ revokedAll = {}

\* the serving state after one login of the admin has been answered
LoggedIn == LoggedInAuth(0) /\ Quiet

InitConcurrent == (\E env \in ServingEnvs : Initialize(env)) /\ LoggedIn

\* the process before main has called InitializeUsers and Initialize
InitStartup ==
    /\ environ \in StartupEnvs
    /\ startup = [InitializeUsers |-> NotCalled, Initialize |-> NotCalled]
    /\ users = EmptyMap
    /\ AccessTokenAuth = NilAuth
    /\ RefreshTokenAuth = NilAuth
    /\ AccessTokenDuration = 0
    /\ RefreshTokenDuration = 0
    /\ sessions = EmptyMap
    /\ now = 0
    /\ nextTokenID = 1
    /\ pc = [t \in Threads |-> "idle"]
    /\ req = [t \in Threads |-> NoReq]
    /\ loc = [t \in Threads |-> NoLoc]
    /\ out = NoOut
    /\ issuedRefresh = {}
    /\ issuedAccess = {}
    /\ accessExpiry = {}
    /\ successors = EmptyMap
    /\ revokedAll = {}
    /\ Quiet

\* ----------------------------------------------------------------- actions

\* the call of auth.InitializeUsers at startup
StartInitializeUsers ==
    /\ startup.InitializeUsers = NotCalled
    /\ users' = InitializeUsers(users, environ.ADMIN_USERNAME, environ.ADMIN_PASSWORD)
    /\ startup' = [startup EXCEPT !.InitializeUsers =
                      InitializeUsersErr(environ.ADMIN_USERNAME,
                                         environ.ADMIN_PASSWORD)]
    /\ UNCHANGED aside
    /\ UNCHANGED << environ, AccessTokenAuth, RefreshTokenAuth,
                    AccessTokenDuration, RefreshTokenDuration, sessions, now,
                    nextTokenID, pc, req, loc, out, history >>

\* the call of auth.Initialize at startup
StartInitialize ==
    /\ startup.Initialize = NotCalled
    /\ LET r == InitializeResult(environ)
       IN  /\ AccessTokenAuth' = r.AccessTokenAuth
           /\ RefreshTokenAuth' = r.RefreshTokenAuth
           /\ AccessTokenDuration' = r.AccessTokenDuration
           /\ RefreshTokenDuration' = r.RefreshTokenDuration
           /\ startup' = [startup EXCEPT !.Initialize = r.err]
    /\ UNCHANGED aside
    /\ UNCHANGED << environ, users, sessions, now, nextTokenID, pc, req, loc,
                    out, history >>

\* auth.Initialize called again after the environment was changed to env:
\* the function is exported and has no once-guard, and it replaces both
\* codecs and both durations while the session store keeps its entries
Reinitialize(env) ==
    /\ env # environ
    /\ environ' = env
    /\ LET r == InitializeResult(env)
       IN  /\ AccessTokenAuth' = r.AccessTokenAuth
           /\ RefreshTokenAuth' = r.RefreshTokenAuth
           /\ AccessTokenDuration' = r.AccessTokenDuration
           /\ RefreshTokenDuration' = r.RefreshTokenDuration
           /\ startup' = [startup EXCEPT !.Initialize = r.err]
    /\ UNCHANGED aside
    /\ UNCHANGED << users, sessions, now, nextTokenID, pc, req, loc, out,
                    history >>

\* time passes
Tick ==
    /\ now < MaxTime
    /\ now' = now + 1
    /\ UNCHANGED aside
    /\ UNCHANGED << config, sessions, nextTokenID, pc, req, loc, out, history >>

\* AuthHandler.Login up to the call of CreateSession
Login(t) ==
    /\ pc[t] = "idle"
    /\ \E username \in Usernames, password \in Passwords, ua \in UserAgents :
         LET r == [op |-> "login", username |-> username, password |-> password,
                   cookies |-> NoCookies, userAgent |-> ua]
             err == ValidateCredentials(username, password)
         IN  IF err # ""
             THEN Answer(t, r, HttpError(401, "Invalid credentials", err, NoCookies))
             ELSE /\ pc' = [pc EXCEPT ![t] = "create"]
                  /\ req' = [req EXCEPT ![t] = r]
                  /\ loc' = [loc EXCEPT ![t] = [NoLoc EXCEPT !.username = username]]
                  /\ out' = out
    /\ UNCHANGED aside
    /\ UNCHANGED << config, sessions, now, nextTokenID, history >>

\* CreateSession, first half: GenerateAccessToken and GenerateRefreshToken
CreateSessionGenerate(t) ==
    /\ pc[t] = "create"
    /\ nextTokenID <= MaxIssued
    /\ LET access == GenerateAccessToken(loc[t].username, now)
           refresh == GenerateRefreshToken(loc[t].username, now, nextTokenID)
       IN  /\ loc' = [loc EXCEPT ![t].accessToken = access.tokenString,
                                 ![t].refreshToken = refresh]
           /\ accessExpiry' = accessExpiry \cup {access}
    /\ nextTokenID' = nextTokenID + 1
    /\ pc' = [pc EXCEPT ![t] = "store"]
    /\ UNCHANGED aside
    /\ UNCHANGED << config, sessions, now, req, out, issuedRefresh, issuedAccess,
                    successors, revokedAll >>

\* the errors CreateSession can return: the codec fails to sign, or
\* crypto/rand fails to deliver the token id
CreateSessionErrors ==
    {"failed to generate access token", "failed to generate token ID",
     "failed to generate refresh token"}

\* CreateSession returning an error: nothing is stored; Login answers 500,
\* RefreshSession hands the error to Refresh, which answers as for any
\* other error of RefreshSession
CreateSessionFault(t) ==
    /\ pc[t] = "create"
    /\ \E err \in CreateSessionErrors :
         Answer(t, req[t],
                IF req[t].op = "login"
                THEN HttpError(500, "Failed to create session", err, NoCookies)
                ELSE HttpError(401, "Invalid or expired refresh token", err,
                               clearAuthCookies))
    /\ UNCHANGED aside
    /\ UNCHANGED << config, sessions, now, nextTokenID, history >>

\* the 200 answer of AuthHandler.Login and AuthHandler.Refresh
Granted(r, accessToken, refreshToken) ==
    [status |-> 200,
     body |-> IF r.op = "login" THEN "authenticated"
              ELSE "Token refreshed successfully",
     username |-> IF r.op = "login" THEN r.username ELSE "",
     err |-> "",
     cookies |-> AuthCookies(accessToken, refreshToken),
     next |-> FALSE]

\* CreateSession, second half: build the Session, insert it under the
\* exclusive lock, return to the handler, which sets both cookies and
\* answers 200.
CreateSessionStore(t) ==
    /\ pc[t] = "store"
    /\ sessions' = StoreSession(sessions,
          NewSession(loc[t].username, loc[t].refreshToken, req[t].userAgent, now))
    /\ Answer(t, req[t], Granted(req[t], loc[t].accessToken, loc[t].refreshToken))
    /\ issuedRefresh' = issuedRefresh \cup {loc[t].refreshToken}
    /\ issuedAccess' = issuedAccess \cup {loc[t].accessToken}
    /\ successors' =
         IF req[t].op = "refresh"
         THEN LET old == req[t].cookies["refresh_token"]
              IN  MapPut(successors, old,
                         (IF old \in DOMAIN successors THEN successors[old] ELSE {})
                            \cup {loc[t].refreshToken})
         ELSE successors
    /\ UNCHANGED aside
    /\ UNCHANGED << config, now, nextTokenID, accessExpiry, revokedAll >>

\* a token signed by somebody who does not hold the server's keys
Forged ==
    Encode(ForeignSecret,
           [username |-> AdminUsername, token_id |-> 0,
            exp |-> Unix(MaxTime) + 1, iat |-> 0])

\* what a client can put into the cookie named n: a token string of
\* either family the server has returned, a forged token, or (to the
\* guarded endpoints) garbage
CookieValues(n) ==
    IF n = "refresh_token"
    THEN issuedRefresh \cup issuedAccess \cup {Forged}
    ELSE issuedAccess \cup issuedRefresh \cup {Forged, Malformed}

\* the cookie sets a request can carry under the cookie name n
CookieJars(n) ==
    {NoCookies} \cup { [c \in {n} |-> v] : v \in CookieValues(n) }

\* RevokeSession removing every session of the user the key belongs to
RevokeSession_AllOfUser(m, tokenHash) ==
    IF tokenHash \in DOMAIN m
    THEN [h \in {k \in DOMAIN m : m[k].Username # m[tokenHash].Username} |-> m[h]]
    ELSE m

\* SessionStore.RevokeSession, under the exclusive lock
RevokeSession(m, tokenHash) == MapDelete(m, tokenHash)

\* the keys a caller of RevokeSession can pass: the key of a token the
\* server returned, or of one it never registered
RevokeKeys == { hashToken(tok) : tok \in issuedRefresh \cup {Forged} }

\* a call of SessionStore.RevokeSession from outside RefreshSession
RevokeSessionCall(tokenHash) ==
    /\ tokenHash \in RevokeKeys
    /\ sessions' = RevokeSession(sessions, tokenHash)
    /\ revokedOne' = revokedOne \cup
          {[tokenHash |-> tokenHash, found |-> tokenHash \in DOMAIN sessions]}
    /\ UNCHANGED << config, now, nextTokenID, pc, req, loc, out, history,
                    containers, ensure, mu, lk >>

\* the answer of AuthHandler.Refresh when RefreshSession returned err
RefreshRejected(err) ==
    HttpError(401, "Invalid or expired refresh token", err, clearAuthCookies)

\* RefreshLookup going on to the verification without looking the token up
RefreshLookup_SkipsLookup(t) ==
    /\ pc[t] = "idle"
    /\ \E jar \in CookieJars("refresh_token"), ua \in UserAgents :
         LET r == [op |-> "refresh", username |-> "", password |-> "",
                   cookies |-> jar, userAgent |-> ua]
         IN  IF "refresh_token" \notin DOMAIN jar
             THEN Answer(t, r, HttpError(401, "Refresh token not found",
                                         "http: named cookie not present", NoCookies))
             ELSE /\ pc' = [pc EXCEPT ![t] = "verify"]
                  /\ req' = [req EXCEPT ![t] = r]
                  /\ loc' = [loc EXCEPT ![t] =
                               [NoLoc EXCEPT !.tokenHash = hashToken(jar["refresh_token"])]]
                  /\ out' = out
    /\ UNCHANGED aside
    /\ UNCHANGED << config, sessions, now, nextTokenID, history >>

\* AuthHandler.Refresh and RefreshSession up to the registry lookup
\* (sessionStore.mu.RLock)
RefreshLookup(t) ==
    /\ pc[t] = "idle"
    /\ \E jar \in CookieJars("refresh_token"), ua \in UserAgents :
         LET r == [op |-> "refresh", username |-> "", password |-> "",
                   cookies |-> jar, userAgent |-> ua]
         IN  IF "refresh_token" \notin DOMAIN jar
             THEN Answer(t, r, HttpError(401, "Refresh token not found",
                                         "http: named cookie not present", NoCookies))
             ELSE LET tokenHash == hashToken(jar["refresh_token"])
                  IN  IF tokenHash \notin DOMAIN sessions
                      THEN Answer(t, r,
                              RefreshRejected("invalid or expired refresh token"))
                      ELSE /\ pc' = [pc EXCEPT ![t] = "verify"]
                           /\ req' = [req EXCEPT ![t] = r]
                           /\ loc' = [loc EXCEPT ![t] =
                                        [NoLoc EXCEPT !.tokenHash = tokenHash]]
                           /\ out' = out
    /\ UNCHANGED aside
    /\ UNCHANGED << config, sessions, now, nextTokenID, history >>

\* RefreshVerify without the revocation of the old session
RefreshVerify_KeepsOld(t) ==
    /\ pc[t] = "verify"
    /\ DecodeOK(RefreshTokenAuth, req[t].cookies["refresh_token"])
    /\ pc' = [pc EXCEPT ![t] = "create"]
    /\ loc' = [loc EXCEPT ![t].username =
                  req[t].cookies["refresh_token"].claims.username]
    /\ UNCHANGED aside
    /\ UNCHANGED << config, sessions, now, nextTokenID, req, out, history >>

\* RefreshVerify leaving the session of a token that does not decode
RefreshVerify_FailsWithoutRevoke(t) ==
    /\ pc[t] = "verify"
    /\ LET oldRefreshToken == req[t].cookies["refresh_token"]
           tokenHash == loc[t].tokenHash
       IN  IF ~DecodeOK(RefreshTokenAuth, oldRefreshToken)
           THEN /\ sessions' = sessions
                /\ Answer(t, req[t], RefreshRejected("invalid refresh token"))
           ELSE /\ sessions' = RevokeSession(sessions, tokenHash)
                /\ pc' = [pc EXCEPT ![t] = "create"]
                /\ loc' = [loc EXCEPT ![t].username =
                              oldRefreshToken.claims.username]
                /\ UNCHANGED << req, out >>
    /\ UNCHANGED aside
    /\ UNCHANGED << config, now, nextTokenID, history >>

\* RefreshSession from RefreshTokenAuth.Decode to the revocation of the old
\* session (rotation) or of the session of a token that does not decode
RefreshVerify(t) ==
    /\ pc[t] = "verify"
    /\ LET oldRefreshToken == req[t].cookies["refresh_token"]
           tokenHash == loc[t].tokenHash
       IN  IF ~DecodeOK(RefreshTokenAuth, oldRefreshToken)
           THEN /\ sessions' = RevokeSession(sessions, tokenHash)
                /\ Answer(t, req[t], RefreshRejected("invalid refresh token"))
           ELSE IF "username" \notin DOMAIN oldRefreshToken.claims
                THEN /\ sessions' = sessions
                     /\ Answer(t, req[t], RefreshRejected("invalid token claims"))
                ELSE /\ sessions' = RevokeSession(sessions, tokenHash)
                     /\ pc' = [pc EXCEPT ![t] = "create"]
                     /\ loc' = [loc EXCEPT ![t].username =
                                   oldRefreshToken.claims.username]
                     /\ UNCHANGED << req, out >>
    /\ UNCHANGED aside
    /\ UNCHANGED << config, now, nextTokenID, history >>

\* AuthHandler.Logout: clears the cookies; the session store is not touched
Logout(t) ==
    /\ pc[t] = "idle"
    /\ \E jar \in CookieJars("refresh_token") :
         Answer(t, [op |-> "logout", username |-> "", password |-> "",
                    cookies |-> jar, userAgent |-> ""],
                [status |-> 200, body |-> "Logged out successfully",
                 username |-> "", err |-> "", cookies |-> clearAuthCookies,
                 next |-> FALSE])
    /\ UNCHANGED aside
    /\ UNCHANGED << config, sessions, now, nextTokenID, history >>

\* WithoutUser clearing the whole map
WithoutUser_Everyone(m, username) == EmptyMap

\* the map after SessionStore.RevokeAllUserSessions(username)
WithoutUser(m, username) ==
    [h \in {k \in DOMAIN m : m[k].Username # username} |-> m[h]]

\* SessionStore.RevokeAllUserSessions, under the exclusive lock
RevokeAllUserSessions(username) ==
    /\ sessions' = WithoutUser(sessions, username)
    /\ revokedAll' = revokedAll \cup
          {tok \in issuedRefresh : tok.claims.username = username}
    /\ UNCHANGED aside
    /\ UNCHANGED << config, now, nextTokenID, pc, req, loc, out,
                    issuedRefresh, issuedAccess, accessExpiry, successors >>

\* SessionStore.GetSessionCount, under the shared lock
GetSessionCount(m) == Cardinality(DOMAIN m)

\* Swept removing also the sessions whose age equals the duration
Swept_Inclusive(m, t) ==
    [h \in {k \in DOMAIN m : ~(t - m[k].CreatedAt >= RefreshTokenDuration)} |-> m[h]]

\* Swept removing nothing
Swept_Never(m, t) == m

\* the map after one pass of SessionStore.cleanupExpiredSessions at time t
Swept(m, t) ==
    [h \in {k \in DOMAIN m : ~(t - m[k].CreatedAt > RefreshTokenDuration)} |-> m[h]]

\* one firing of the cleanup ticker
Sweep ==
    /\ sessions' = Swept(sessions, now)
    /\ UNCHANGED aside
    /\ UNCHANGED << config, now, nextTokenID, pc, req, loc, out, history >>

\* Protected with Decode in place of VerifyToken: the claims are not validated
Protected_DecodeOnly(jar, t) ==
    IF "access_token" \notin DOMAIN jar
    THEN [next |-> FALSE, body |-> "Unauthorized - No access token", username |-> ""]
    ELSE IF ~DecodeOK(AccessTokenAuth, jar["access_token"])
         THEN [next |-> FALSE, body |-> "Unauthorized - Invalid token", username |-> ""]
         ELSE [next |-> TRUE, body |-> "",
               username |-> jar["access_token"].claims.username]

\* Protected answering an expired token differently from a forged one
Protected_TellsExpired(jar, t) ==
    IF "access_token" \notin DOMAIN jar
    THEN [next |-> FALSE, body |-> "Unauthorized - No access token", username |-> ""]
    ELSE IF ~DecodeOK(AccessTokenAuth, jar["access_token"])
         THEN [next |-> FALSE, body |-> "Unauthorized - Invalid token", username |-> ""]
         ELSE IF ~ValidateOK(jar["access_token"].claims, t)
              THEN [next |-> FALSE, body |-> "Unauthorized - Token expired",
                    username |-> ""]
              ELSE [next |-> TRUE, body |-> "",
                    username |-> jar["access_token"].claims.username]

\* Protected accepting a token only while its user has a session
Protected_RequiresSession(jar, t) ==
    IF "access_token" \notin DOMAIN jar
    THEN [next |-> FALSE, body |-> "Unauthorized - No access token", username |-> ""]
    ELSE IF \/ ~VerifyTokenOK(AccessTokenAuth, jar["access_token"], t)
            \/ ~\E k \in DOMAIN sessions :
                   sessions[k].Username = jar["access_token"].claims.username
         THEN [next |-> FALSE, body |-> "Unauthorized - Invalid token", username |-> ""]
         ELSE [next |-> TRUE, body |-> "",
               username |-> jar["access_token"].claims.username]

\* the outcome of middleware.Protected for a cookie jar at time t:
\* a 401 with its body, or the call of next with the username put into
\* the request context
Protected(jar, t) ==
    IF "access_token" \notin DOMAIN jar
    THEN [next |-> FALSE, body |-> "Unauthorized - No access token", username |-> ""]
    ELSE IF ~VerifyTokenOK(AccessTokenAuth, jar["access_token"], t)
         THEN [next |-> FALSE, body |-> "Unauthorized - Invalid token", username |-> ""]
         ELSE LET claims == jar["access_token"].claims
              IN  [next |-> TRUE, body |-> "",
                   username |-> IF "username" \in DOMAIN claims
                                THEN claims.username ELSE ""]

\* GET /auth/me: Protected, then AuthHandler.Me
Me(t) ==
    /\ pc[t] = "idle"
    /\ \E jar \in CookieJars("access_token") :
         LET guard == Protected(jar, now)
             r == [op |-> "me", username |-> "", password |-> "",
                   cookies |-> jar, userAgent |-> ""]
         IN  Answer(t, r,
                IF ~guard.next
                THEN HttpError(401, guard.body, "", NoCookies)
                ELSE IF guard.username = ""
                     THEN [HttpError(401, "Unauthorized", "", NoCookies)
                              EXCEPT !.next = TRUE]
                     ELSE [status |-> 200, body |-> "authenticated",
                           username |-> guard.username, err |-> "",
                           cookies |-> NoCookies, next |-> TRUE])
    /\ UNCHANGED aside
    /\ UNCHANGED << config, sessions, now, nextTokenID, history >>

\* ------------------------------------------------------- sessionStore.mu
\* The sections of the code that touch sessionStore.sessions, by the function
\* they are in; the request goroutines run all but the sweep, which runs in
\* the goroutine Initialize starts.
Sections(g) ==
    IF g = "cleanup"
    THEN {"cleanupExpiredSessions"}
    ELSE {"CreateSession", "RefreshSession", "RevokeSession",
          "RevokeAllUserSessions", "GetSessionCount"}

\* LockKind with every section taking the shared lock
LockKind_AllShared(op) == "RLock"

\* the lock each section takes: mu.Lock or mu.RLock
LockKind(op) ==
    IF op \in {"RefreshSession", "GetSessionCount"} THEN "RLock" ELSE "Lock"

\* what each section does to the map between locking and unlocking
AccessKind(op) ==
    IF op \in {"RefreshSession", "GetSessionCount"} THEN "read" ELSE "write"

\* g is between the locking and the unlocking of a section
Inside(g) == lk[g].phase # "out"

\* sync.RWMutex: Lock waits until there is no writer and no reader, RLock
\* until there is no writer
SectionLock(g, op) ==
    /\ lk[g].phase = "out"
    /\ op \in Sections(g)
    /\ op = "CreateSession" => nextTokenID <= MaxIssued
    /\ IF LockKind(op) = "Lock"
       THEN /\ mu = Unlocked
            /\ mu' = [mu EXCEPT !.writer = g]
       ELSE /\ mu.writer = ""
            /\ mu' = [mu EXCEPT !.readers = @ \cup {g}]
    /\ lk' = [lk EXCEPT ![g] = [op |-> op, phase |-> "held"]]
    /\ UNCHANGED << config, sessions, now, nextTokenID, pc, req, loc, out,
                    history, revokedOne, containers, ensure >>

\* the statements of a section between locking and unlocking
SectionAccess(g) ==
    /\ lk[g].phase = "held"
    /\ lk' = [lk EXCEPT ![g].phase = "accessed"]
    /\ CASE lk[g].op = "CreateSession" ->
              /\ nextTokenID <= MaxIssued
              /\ \E username \in Usernames, ua \in UserAgents :
                    sessions' = StoreSession(sessions,
                       NewSession(username,
                                  GenerateRefreshToken(username, now, nextTokenID),
                                  ua, now))
              /\ nextTokenID' = nextTokenID + 1
         [] lk[g].op = "RevokeSession" ->
              /\ \E k \in DOMAIN sessions \cup {hashToken(Forged)} :
                    sessions' = RevokeSession(sessions, k)
              /\ nextTokenID' = nextTokenID
         [] lk[g].op = "RevokeAllUserSessions" ->
              /\ \E username \in Usernames :
                    sessions' = WithoutUser(sessions, username)
              /\ nextTokenID' = nextTokenID
         [] lk[g].op = "cleanupExpiredSessions" ->
              /\ sessions' = Swept(sessions, now)
              /\ nextTokenID' = nextTokenID
         [] OTHER ->
              UNCHANGED << sessions, nextTokenID >>
    /\ UNCHANGED << config, now, pc, req, loc, out, history, revokedOne,
                    containers, ensure, mu >>

\* mu.Unlock or mu.RUnlock, by the kind of lock the section took
SectionUnlock(g) ==
    /\ lk[g].phase = "accessed"
    /\ mu' = IF LockKind(lk[g].op) = "Lock"
             THEN [mu EXCEPT !.writer = ""]
             ELSE [mu EXCEPT !.readers = @ \ {g}]
    /\ lk' = [lk EXCEPT ![g] = Outside]
    /\ UNCHANGED << config, sessions, now, nextTokenID, pc, req, loc, out,
                    history, revokedOne, containers, ensure >>

\* ------------------------------------------------------------------ docker
\* platform.TraefikContainerName
TraefikContainerName == "hubble-traefik"

\* Container names, written as the pieces that matter to a name filter, and
\* container states.  A daemon gives no two containers the same name.
ContainerNames ==
    { << TraefikContainerName >>, << TraefikContainerName, "-dashboard" >>,
      << "postgres" >> }
ContainerStates == {"running", "exited", "created"}

\* the daemons EnsureTraefik can meet: up to MaxContainers containers in
\* the order the daemon lists them; a container's ID is its position
DockerHosts ==
    { cs \in UNION { [1 .. n -> [Name : ContainerNames, State : ContainerStates]] :
                        n \in 0 .. MaxContainers } :
        \A i, j \in DOMAIN cs : cs[i].Name = cs[j].Name => i = j }

\* the daemon's name filter: the value matches all or part of the name
NameMatches(name, value) == \E i \in DOMAIN name : name[i] = value

\* dockerClient.ContainerList with All: true and a name filter: the IDs of
\* the matching containers, in listing order
ContainerList(cs, value) ==
    SelectSeq([i \in DOMAIN cs |-> i], LAMBDA i : NameMatches(cs[i].Name, value))

\* platform.EnsureTraefik, the check-only version; either daemon call can fail
EnsureTraefik ==
    /\ \E listFails \in BOOLEAN, startFails \in BOOLEAN :
         IF listFails
         THEN /\ ensure' = [called |-> TRUE, err |-> "failed to list containers",
                            started |-> << >>]
              /\ containers' = containers
         ELSE LET found == ContainerList(containers, TraefikContainerName)
              IN  IF Len(found) = 0
                  THEN /\ ensure' = [called |-> TRUE,
                                     err |-> "Traefik container not found - start via docker-compose",
                                     started |-> << >>]
                       /\ containers' = containers
                  ELSE LET traefikID == found[1]
                       IN  IF containers[traefikID].State = "running"
                           THEN /\ ensure' = [called |-> TRUE, err |-> "",
                                              started |-> << >>]
                                /\ containers' = containers
                           ELSE IF startFails
                                THEN /\ ensure' = [called |-> TRUE,
                                                   err |-> "failed to start Traefik",
                                                   started |-> << traefikID >>]
                                     /\ containers' = containers
                                ELSE /\ ensure' = [called |-> TRUE, err |-> "",
                                                   started |-> << traefikID >>]
                                     /\ containers' =
                                           [containers EXCEPT ![traefikID].State = "running"]
    /\ UNCHANGED << config, sessions, now, nextTokenID, pc, req, loc, out,
                    history, revokedOne, mu, lk >>

\* a running container stops
ContainerExits(i) ==
    /\ i \in DOMAIN containers
    /\ containers[i].State = "running"
    /\ containers' = [containers EXCEPT ![i].State = "exited"]
    /\ UNCHANGED << config, sessions, now, nextTokenID, pc, req, loc, out,
                    history, revokedOne, ensure, mu, lk >>

\* ---------------------------------------------------------- specifications

\* One request goroutine, the clock and the cleanup goroutine.
Next ==
    \/ Tick
    \/ Sweep
    \/ Login("g1")
    \/ CreateSessionGenerate("g1")
    \/ CreateSessionStore("g1")
    \/ RefreshLookup("g1")
    \/ RefreshVerify("g1")

Spec == Init /\ [][Next]_vars

\* The same, with the cleanup ticker firing again and again.
SpecSweepFair == Init /\ [][Next]_vars /\ WF_vars(Sweep)

\* One request goroutine and the revocations: logout and the removal of
\* all sessions of a user.
NextRevoke ==
    \/ \E u \in Usernames : RevokeAllUserSessions(u)
    \/ Logout("g1")
    \/ Login("g1")
    \/ CreateSessionGenerate("g1")
    \/ CreateSessionStore("g1")
    \/ RefreshLookup("g1")
    \/ RefreshVerify("g1")

SpecRevoke == Init /\ [][NextRevoke]_vars

\* One request goroutine next to the revocation of single sessions, at any
\* point of a login or a refresh.
NextRevokeOne ==
    \/ \E k \in RevokeKeys : RevokeSessionCall(k)
    \/ Login("g1")
    \/ CreateSessionGenerate("g1")
    \/ CreateSessionStore("g1")
    \/ RefreshLookup("g1")
    \/ RefreshVerify("g1")

SpecRevokeOne == Init /\ [][NextRevokeOne]_vars

\* The locked sections of two request goroutines and the cleanup goroutine
\* interleaved statement by statement, with one session registered at time
\* 0, seen at that time and when the session has outlived its duration.
InitLocking ==
    /\ \E env \in ServingEnvs : Initialize(env)
    /\ \E t \in {0, MaxTime} : LoggedInAuth(t)
    /\ Quiet

NextLocking ==
    \/ \E g \in Goroutines : \E op \in Sections(g) : SectionLock(g, op)
    \/ \E g \in Goroutines : SectionAccess(g)
    \/ \E g \in Goroutines : SectionUnlock(g)

SpecLocking == InitLocking /\ [][NextLocking]_vars

\* The agent checking Traefik against a docker daemon
InitTraefik ==
    /\ \E env \in ServingEnvs : Initialize(env)
    /\ ServingAuth
    /\ revokedOne = {}
    /\ containers \in DockerHosts
    /\ ensure = NoEnsure
    /\ mu = Unlocked
    /\ lk = [g \in Goroutines |-> Outside]

NextTraefik ==
    \/ EnsureTraefik
    \/ \E i \in 1 .. MaxContainers : ContainerExits(i)

SpecTraefik == InitTraefik /\ [][NextTraefik]_vars

\* Two request goroutines interleaved step by step, from the state a first
\* login leaves.
NextConcurrent ==
    \E t \in Threads :
       \/ Login(t)
       \/ CreateSessionGenerate(t)
       \/ CreateSessionStore(t)
       \/ RefreshLookup(t)
       \/ RefreshVerify(t)

SpecConcurrent == InitConcurrent /\ [][NextConcurrent]_vars

\* One request goroutine in a process whose codec or random source can
\* fail.
NextFault ==
    \/ Login("g1")
    \/ CreateSessionGenerate("g1")
    \/ CreateSessionStore("g1")
    \/ CreateSessionFault("g1")
    \/ RefreshLookup("g1")
    \/ RefreshVerify("g1")

SpecFault == Init /\ [][NextFault]_vars

\* The service of a process whose refresh secret is replaced while sessions
\* are registered
NextRekey ==
    \/ \E env \in RekeyEnvs : Reinitialize(env)
    \/ Login("g1")
    \/ CreateSessionGenerate("g1")
    \/ CreateSessionStore("g1")
    \/ RefreshLookup("g1")
    \/ RefreshVerify("g1")

SpecRekey == Init /\ [][NextRekey]_vars

\* Logins served by two goroutines interleaved step by step, from the
\* empty registry.
NextLogins ==
    \E t \in Threads :
       \/ Login(t)
       \/ CreateSessionGenerate(t)
       \/ CreateSessionStore(t)

SpecLogins == Init /\ [][NextLogins]_vars

\* The guarded endpoint: logins, the clock and GET /auth/me, under every
\* environment of GuardEnvs.
InitGuard == (\E env \in GuardEnvs : Initialize(env)) /\ Serving

NextGuard ==
    \/ Tick
    \/ Login("g1")
    \/ CreateSessionGenerate("g1")
    \/ CreateSessionStore("g1")
    \/ Me("g1")

SpecGuard == InitGuard /\ [][NextGuard]_vars

\* The guarded endpoint next to everything that takes sessions out of the
\* registry while the clock stands still: rotation and revocation.
NextGuardRevoke ==
    \/ \E u \in Usernames : RevokeAllUserSessions(u)
    \/ Login("g1")
    \/ CreateSessionGenerate("g1")
    \/ CreateSessionStore("g1")
    \/ RefreshLookup("g1")
    \/ RefreshVerify("g1")
    \/ Me("g1")

SpecGuardRevoke == InitGuard /\ [][NextGuardRevoke]_vars

\* Both endpoints that take a token, under every environment of GuardEnvs.
NextFamilies ==
    \/ Login("g1")
    \/ CreateSessionGenerate("g1")
    \/ CreateSessionStore("g1")
    \/ RefreshLookup("g1")
    \/ RefreshVerify("g1")
    \/ Me("g1")

SpecFamilies == InitGuard /\ [][NextFamilies]_vars

\* The start of the process: InitializeUsers and Initialize, each called
\* once, under every environment of StartupEnvs.
NextStartup ==
    \/ StartInitializeUsers
    \/ StartInitialize

SpecStartup == InitStartup /\ [][NextStartup]_vars

\* ------------------------------------------------------------------ claims

\* the refresh token a request presents, if it presents one
HasRefreshCookie(r) == "refresh_token" \in DOMAIN r.cookies
RefreshCookie(r) == r.cookies["refresh_token"]
HasAccessCookie(r) == "access_token" \in DOMAIN r.cookies
AccessCookie(r) == r.cookies["access_token"]
Registered(tok) == hashToken(tok) \in DOMAIN sessions

\* whether (username, password) is a pair of the credential store
ValidPair(username, password) ==
    /\ username \in DOMAIN users
    /\ users[username].PasswordHash = BcryptHash(password)

\* C1: once a RefreshSession call has succeeded for refresh token T, T is
\* never registered again, and every RefreshSession call that begins
\* afterwards and presents T fails at the registry lookup with 401,
\* whatever happened in between and although T still verifies.
C1_RotatedTokenStaysDead ==
    /\ [](\A T \in DOMAIN successors : ~Registered(T))
    /\ [][\A t \in Threads :
            RefreshLookup(t) =>
              /\ pc'[t] = "verify" => RefreshCookie(req'[t]) \notin DOMAIN successors
              /\ (pc'[t] = "idle" /\ HasRefreshCookie(out'.req)
                     /\ RefreshCookie(out'.req) \in DOMAIN successors)
                   => out'.resp.status = 401]_vars

\* a rotated token was presented again, was rejected, and still verifies
C1_Witness ==
    /\ out.req.op = "refresh"
    /\ HasRefreshCookie(out.req)
    /\ RefreshCookie(out.req) \in DOMAIN successors
    /\ out.resp.status = 401
    /\ VerifyTokenOK(RefreshTokenAuth, RefreshCookie(out.req), now)

\* C2: of the concurrent RefreshSession calls that present the same
\* registered refresh token at most one returns a new pair: no refresh
\* token has more than one successor.
C2_OneSuccessorPerToken ==
    \A T \in DOMAIN successors : Cardinality(successors[T]) <= 1

\* C3: a refresh has removed the old session before it creates the new
\* one: while a refresh is in CreateSession its old token is not
\* registered, and a token and a token rotated from it are never
\* registered together.
C3_OldRevokedBeforeNew ==
    /\ \A t \in Threads :
         (req[t].op = "refresh" /\ pc[t] \in {"create", "store"})
            => ~Registered(RefreshCookie(req[t]))
    /\ \A T \in DOMAIN successors :
         \A N \in successors[T] : ~(Registered(T) /\ Registered(N))

\* a refresh was answered 200 and the token it returned is registered
C3_Witness ==
    /\ out.req.op = "refresh"
    /\ out.resp.status = 200
    /\ Registered(out.resp.cookies["refresh_token"])
    /\ RefreshCookie(out.req) \in DOMAIN successors
    /\ out.resp.cookies["refresh_token"] \in successors[RefreshCookie(out.req)]

\* C4: after POST /auth/logout was answered for a request that carried a
\* refresh credential, the session of that credential is not in the
\* registry.
C4_LogoutRevokes ==
    (out.req.op = "logout" /\ HasRefreshCookie(out.req))
       => ~Registered(RefreshCookie(out.req))

\* C5: RevokeAllUserSessions(u) leaves no session owned by u and leaves
\* the sessions of every other user as they were; a token issued to u
\* before the call is never registered afterwards, and no RefreshSession
\* call that begins afterwards and presents it gets past the lookup.
C5_RevokeAllForUser ==
    /\ [][\A u \in Usernames :
            RevokeAllUserSessions(u) =>
              /\ \A k \in DOMAIN sessions' : sessions'[k].Username # u
              /\ \A k \in DOMAIN sessions :
                   sessions[k].Username # u =>
                     (k \in DOMAIN sessions' /\ sessions'[k] = sessions[k])]_vars
    /\ [](\A T \in revokedAll : ~Registered(T))
    /\ [][\A t \in Threads :
            RefreshLookup(t) =>
              /\ pc'[t] = "verify" => RefreshCookie(req'[t]) \notin revokedAll
              /\ (pc'[t] = "idle" /\ HasRefreshCookie(out'.req)
                     /\ RefreshCookie(out'.req) \in revokedAll)
                   => out'.resp.status = 401]_vars

\* a token revoked with its user's sessions was presented and rejected
\* while a session of another user is still registered
C5_Witness ==
    /\ out.req.op = "refresh"
    /\ HasRefreshCookie(out.req)
    /\ RefreshCookie(out.req) \in revokedAll
    /\ out.resp.status = 401
    /\ \E k \in DOMAIN sessions :
         sessions[k].Username # RefreshCookie(out.req).claims.username

\* C6: RefreshSession goes on to rotate only a refresh token whose claim
\* expiry has not passed: a token that is expired when it is verified is
\* rejected even though its session is registered.
C6_ExpiredRefreshRejected ==
    [][\A t \in Threads :
         (RefreshVerify(t) /\ pc'[t] = "create")
            => ValidateOK(RefreshCookie(req[t]).claims, now)]_vars

C8_InvalidLoginUniform ==
    /\ []((out.req.op = "login" /\ ~ValidPair(out.req.username, out.req.password))
            => out.resp = HttpError(401, "Invalid credentials",
                                    "invalid credentials", NoCookies))
    /\ [][\A t \in Threads :
            (Login(t) /\ pc'[t] = "idle") => sessions' = sessions]_vars

\* a login of an unknown username was rejected
C8_Witness ==
    /\ out.req.op = "login"
    /\ out.req.username \notin DOMAIN users
    /\ out.resp.status = 401

\* C9 as stated: the guard accepts an access token exactly when the time
\* of the request lies before the expiresAt that GenerateAccessToken
\* computed for it.
C9_AcceptedUntilExpiresAt ==
    [][\A t \in Threads :
         Me(t) =>
           \A g \in accessExpiry :
              (HasAccessCookie(out'.req) /\ AccessCookie(out'.req) = g.tokenString)
                 => (out'.resp.next <=> now < g.expiresAt)]_vars

\* C9 amended: the guard accepts an access token exactly when the Unix
\* second of the request lies before the Unix second of its expiresAt.
C9_AcceptedUntilExpirySecond ==
    [][\A t \in Threads :
         Me(t) =>
           \A g \in accessExpiry :
              (HasAccessCookie(out'.req) /\ AccessCookie(out'.req) = g.tokenString)
                 => (out'.resp.next <=> Unix(now) < Unix(g.expiresAt))]_vars

\* an access token was rejected although its expiresAt had not been reached
C9_Witness ==
    /\ out.req.op = "me"
    /\ HasAccessCookie(out.req)
    /\ ~out.resp.next
    /\ \E g \in accessExpiry :
         g.tokenString = AccessCookie(out.req) /\ now < g.expiresAt

\* C10: Protected calls the next handler exactly when the request carries
\* an access_token cookie that decodes under the access key and whose exp
\* lies after the current second; then GET /auth/me answers 200 with the
\* username claim of the token, otherwise the answer is 401.
C10_GuardInvokesOnlyVerified ==
    [][\A t \in Threads :
         Me(t) =>
           LET r == out'.req
               ok == /\ HasAccessCookie(r)
                     /\ WellFormed(AccessCookie(r))
                     /\ AccessCookie(r).sig = AccessTokenAuth
                     /\ Unix(now) < AccessCookie(r).claims.exp
           IN  /\ out'.resp.next <=> ok
               /\ ok => /\ out'.resp.status = 200
                        /\ out'.resp.username = AccessCookie(r).claims.username
               /\ ~ok => out'.resp.status = 401]_vars

\* GET /auth/me answered 200 with the admin's username
C10_Witness ==
    /\ out.req.op = "me"
    /\ out.resp.status = 200
    /\ out.resp.next
    /\ out.resp.username = AdminUsername

\* C11 as stated: any two requests the guard rejects, one after the other,
\* get the same status and the same body, whatever the cause of either
\* rejection (no token, malformed, expired, bad signature).
C11_AllRejectionsIdentical ==
    [][\A t \in Threads :
         (Me(t) /\ ~out'.resp.next /\ out.req.op = "me" /\ ~out.resp.next)
            => /\ out'.resp.status = out.resp.status
               /\ out'.resp.body = out.resp.body]_vars

\* C11 amended: every rejection of the guard has status 401 and sets no
\* cookie; the body is the same for every request that presents an
\* access_token (malformed, expired or badly signed), and is a different
\* one for a request that presents none.
C11_RejectionsUniformWhenPresented ==
    [][\A t \in Threads :
         (Me(t) /\ ~out'.resp.next)
            => /\ out'.resp.status = 401
               /\ out'.resp.cookies = NoCookies
               /\ out'.resp.username = ""
               /\ HasAccessCookie(out'.req)
                     => out'.resp.body = "Unauthorized - Invalid token"
               /\ ~HasAccessCookie(out'.req)
                     => out'.resp.body = "Unauthorized - No access token"]_vars

\* the guard rejected an expired access token of its own with the body it
\* gives a malformed or forged one
C11_Witness ==
    /\ out.req.op = "me"
    /\ HasAccessCookie(out.req)
    /\ AccessCookie(out.req) \in issuedAccess
    /\ DecodeOK(AccessTokenAuth, AccessCookie(out.req))
    /\ ~ValidateOK(AccessCookie(out.req).claims, now)
    /\ ~out.resp.next
    /\ out.resp.status = 401
    /\ out.resp.body = "Unauthorized - Invalid token"

\* whether the session under key k is older than the refresh-token duration
Stale(k) == now - sessions[k].CreatedAt > RefreshTokenDuration

\* an issued refresh token that left the registry without being rotated
SweptAway(tok) ==
    /\ tok \in issuedRefresh
    /\ ~Registered(tok)
    /\ tok \notin DOMAIN successors
    /\ \A t \in Threads : req[t].op # "refresh"

\* C12: one pass of the sweep over N sessions of which K are older than
\* RefreshTokenDuration leaves N - K sessions: exactly the K are removed,
\* and every other session, one whose age equals the duration included,
\* stays as it was.
C12_SweepRemovesExactlyStale ==
    [][Sweep =>
         LET stale == {k \in DOMAIN sessions : Stale(k)}
         IN  /\ DOMAIN sessions' = DOMAIN sessions \ stale
             /\ \A k \in DOMAIN sessions' : sessions'[k] = sessions[k]
             /\ GetSessionCount(sessions') =
                   GetSessionCount(sessions) - Cardinality(stale)]_vars

\* a sweep removed a stale session and kept one whose age equals the
\* duration
C12_Witness ==
    /\ \E tok \in issuedRefresh : SweptAway(tok)
    /\ \A t \in Threads : pc[t] = "idle"
    /\ GetSessionCount(sessions) = 1
    /\ \E k \in DOMAIN sessions :
         now - sessions[k].CreatedAt = RefreshTokenDuration

\* C13: with the cleanup ticker firing again and again, and whatever
\* requests are served meanwhile, the registry is again and again free of
\* sessions older than RefreshTokenDuration.  A session that is stale stays
\* stale for as long as it is registered, so each one is eventually
\* removed and none stays registered forever.
C13_StaleEventuallyRemoved ==
    []<>(\A k \in DOMAIN sessions : ~Stale(k))

\* a stale session was swept while a login was being served
C13_Witness ==
    /\ \E tok \in issuedRefresh : SweptAway(tok)
    /\ req["g1"].op = "login"
    /\ pc["g1"] = "store"
    /\ \A k \in DOMAIN sessions : ~Stale(k)

\* C14: under every interleaving of concurrent CreateSession calls that
\* start from the empty registry, GetSessionCount equals the number of
\* calls that have done their insert, and every call that has returned
\* finds its own session registered for its own username: no insert is
\* lost or overwritten.
C14_ConcurrentLoginsAllRegistered ==
    /\ GetSessionCount(sessions) =
          (nextTokenID - 1) - Cardinality({t \in Threads : pc[t] = "store"})
    /\ \A tok \in issuedRefresh :
          /\ Registered(tok)
          /\ sessions[hashToken(tok)].Username = tok.claims.username

\* two logins of distinct identities were served at the same time and the
\* registry holds a session for each
C14_Witness ==
    /\ \A t \in Threads : pc[t] = "idle"
    /\ GetSessionCount(sessions) = 2
    /\ {sessions[k].Username : k \in DOMAIN sessions} = {AdminUsername, OtherUsername}
    /\ \A j, k \in DOMAIN sessions : sessions[j].CreatedAt = sessions[k].CreatedAt
    /\ Cardinality(issuedRefresh) = 2

\* C15: under every configuration the process runs with, a refresh
\* request that presents an access token is rejected, and a request that
\* presents a refresh token as its access_token is rejected by the guard.
C15_FamiliesNotInterchangeable ==
    /\ [][\A t \in Threads :
            RefreshLookup(t) =>
              LET r == IF pc'[t] = "verify" THEN req'[t] ELSE out'.req
              IN  (HasRefreshCookie(r) /\ RefreshCookie(r) \in issuedAccess)
                     => (pc'[t] = "idle" /\ out'.resp.status = 401)]_vars
    /\ [][\A t \in Threads :
            Me(t) =>
              ((HasAccessCookie(out'.req) /\ AccessCookie(out'.req) \in issuedRefresh)
                 => (~out'.resp.next /\ out'.resp.status = 401))]_vars

\* C16: Initialize returns an error whenever the access-token duration it
\* is configured with is not less than the refresh-token duration, so a
\* process whose two startup calls returned nil runs with
\* AccessTokenDuration < RefreshTokenDuration.
C16_StartupOrdersDurations ==
    /\ [][StartInitialize =>
            (startup'.Initialize = ""
               => AccessTokenDuration' < RefreshTokenDuration')]_vars
    /\ []((startup.InitializeUsers = "" /\ startup.Initialize = "")
            => AccessTokenDuration < RefreshTokenDuration)

\* C17: InitializeUsers returns an error and leaves the credential store
\* as it was when ADMIN_USERNAME is empty, ADMIN_PASSWORD is empty or
\* ADMIN_PASSWORD has fewer than 8 characters; otherwise it returns nil and
\* the store holds the admin identity with a hash of that password.
C17_InitializeUsersValidates ==
    /\ [][StartInitializeUsers =>
            LET u == environ.ADMIN_USERNAME
                p == environ.ADMIN_PASSWORD
                bad == u = "" \/ p = "" \/ Len(p) < 8
            IN  /\ bad => (startup'.InitializeUsers # "" /\ users' = users)
                /\ ~bad => /\ startup'.InitializeUsers = ""
                           /\ DOMAIN users' = {u}
                           /\ users'[u].Username = u
                           /\ BcryptCompare(users'[u].PasswordHash, p)]_vars
    /\ [](startup.InitializeUsers \in {NotCalled, ""} \/ users = EmptyMap)

\* InitializeUsers refused a password of 7 characters and added nobody
C17_Witness ==
    /\ environ.ADMIN_USERNAME = AdminUsername
    /\ Len(environ.ADMIN_PASSWORD) = 7
    /\ startup.InitializeUsers = "ADMIN_PASSWORD must be at least 8 characters long"
    /\ users = EmptyMap

\* C18: Initialize returns an error and builds no token codec whenever
\* JWT_ACCESS_SECRET or JWT_REFRESH_SECRET is unset.
C18_StartupRequiresSecrets ==
    [][StartInitialize =>
         ((environ.JWT_ACCESS_SECRET = "" \/ environ.JWT_REFRESH_SECRET = "")
            => /\ startup'.Initialize # ""
               /\ AccessTokenAuth' = NilAuth
               /\ RefreshTokenAuth' = NilAuth)]_vars

\* C19: every POST /auth/refresh that is not answered 200 is answered 401
\* and clears both the access_token and the refresh_token cookie.
C19_FailedRefreshClearsCookies ==
    (out.req.op = "refresh" /\ out.resp.status # 200)
       => /\ out.resp.status = 401
          /\ out.resp.cookies = clearAuthCookies

\* C20: when CreateSession returns an error inside login or refresh, the
\* answer is a server error and not the 401 given for bad credentials or
\* tokens.
C20_FaultIsNotUnauthorized ==
    [][\A t \in Threads :
         CreateSessionFault(t) =>
            (out'.resp.status = 500 /\ out'.resp.status # 401)]_vars

\* C22: a RefreshSession call that presents a token without a registry
\* entry fails: it is answered 401, issues no token and leaves the
\* registry as it was, whether the token was never issued, was rotated or
\* was swept, and whether or not it still verifies.
C22_AbsentTokenFailsWithoutEffect ==
    [][\A t \in Threads :
         RefreshLookup(t) =>
            LET r == IF pc'[t] = "verify" THEN req'[t] ELSE out'.req
            IN  (HasRefreshCookie(r) /\ ~Registered(RefreshCookie(r)))
                   => /\ pc'[t] = "idle"
                      /\ out'.resp.status = 401
                      /\ out'.resp.cookies = clearAuthCookies
                      /\ sessions' = sessions
                      /\ nextTokenID' = nextTokenID
                      /\ issuedRefresh' = issuedRefresh
                      /\ issuedAccess' = issuedAccess]_vars

\* a refresh token that the sweep removed was presented and rejected,
\* although its signature is good
C22_Witness ==
    /\ out.req.op = "refresh"
    /\ HasRefreshCookie(out.req)
    /\ SweptAway(RefreshCookie(out.req))
    /\ DecodeOK(RefreshTokenAuth, RefreshCookie(out.req))
    /\ out.resp.status = 401
    /\ \A t \in Threads : pc[t] = "idle"

\* C25: the registry holds no raw refresh-token string: no key of the
\* session map and no RefreshTokenHash in it equals a refresh token that
\* was returned to a client.
C25_RegistryHoldsNoRawToken ==
    \A k \in DOMAIN sessions :
       /\ k \notin issuedRefresh
       /\ sessions[k].RefreshTokenHash \notin issuedRefresh

\* C27: every registry entry is stored under the key equal to its own
\* RefreshTokenHash, and the insert of CreateSession stores a token that
\* was never returned before under a key that is not registered, so it
\* overwrites nothing and each issued token has at most one session.
C27_OneSessionPerToken ==
    /\ [](\A k \in DOMAIN sessions :
            /\ sessions[k].RefreshTokenHash = k
            /\ \E tok \in issuedRefresh : hashToken(tok) = k)
    /\ [][\A t \in Threads :
            CreateSessionStore(t) =>
               /\ loc[t].refreshToken \notin issuedRefresh
               /\ hashToken(loc[t].refreshToken) \notin DOMAIN sessions
               /\ \A k \in DOMAIN sessions : sessions'[k] = sessions[k]]_vars

\* two sessions of one user, made in the same second, are registered
\* under two keys
C27_Witness ==
    /\ GetSessionCount(sessions) = 2
    /\ \A j, k \in DOMAIN sessions :
          /\ sessions[j].Username = sessions[k].Username
          /\ sessions[j].CreatedAt = sessions[k].CreatedAt
    /\ \A k \in DOMAIN sessions : sessions[k].RefreshTokenHash = k
    /\ \A t \in Threads : pc[t] = "idle"

\* C30: a successful RefreshSession replaces exactly one registry entry:
\* its revocation removes the entry of the presented token and nothing
\* else, and its insert adds one entry, owned by the username of the
\* removed one, and nothing else.
C30_RefreshReplacesOneEntry ==
    /\ [][\A t \in Threads :
            (RefreshVerify(t) /\ pc'[t] = "create") =>
               /\ loc[t].tokenHash \in DOMAIN sessions
               /\ sessions[loc[t].tokenHash].Username = loc'[t].username
               /\ DOMAIN sessions' = DOMAIN sessions \ {loc[t].tokenHash}
               /\ \A k \in DOMAIN sessions' : sessions'[k] = sessions[k]]_vars
    /\ [][\A t \in Threads :
            (CreateSessionStore(t) /\ req[t].op = "refresh") =>
               LET k == hashToken(loc[t].refreshToken)
               IN  /\ k \notin DOMAIN sessions
                   /\ DOMAIN sessions' = DOMAIN sessions \cup {k}
                   /\ sessions'[k].Username = loc[t].username
                   /\ \A j \in DOMAIN sessions : sessions'[j] = sessions[j]]_vars

\* C29: the guard's answer depends on the presented access token and the
\* time only: an access token the server issued is accepted exactly when
\* its claims are valid at that time, whether or not a session of its user
\* is registered, and a request repeated at the same time gets the same
\* answer whatever happened to the registry in between.
C29_GuardIgnoresRegistry ==
    /\ [][\A t \in Threads :
            Me(t) =>
               ((HasAccessCookie(out'.req) /\ AccessCookie(out'.req) \in issuedAccess)
                  => (out'.resp.next <=>
                        ValidateOK(AccessCookie(out'.req).claims, now)))]_vars
    /\ [][\A t \in Threads :
            (Me(t) /\ out.req.op = "me" /\ out'.req = out.req /\ now' = now)
               => out'.resp = out.resp]_vars

\* an access token was accepted after every session of its user had been
\* revoked
C29_Witness ==
    /\ out.req.op = "me"
    /\ HasAccessCookie(out.req)
    /\ AccessCookie(out.req) \in issuedAccess
    /\ out.resp.next
    /\ out.resp.status = 200
    /\ revokedAll # {}
    /\ \A k \in DOMAIN sessions : sessions[k].Username # out.resp.username

\* C24: when RefreshSession finds the presented token registered and the
\* token then fails verification, the call ends with the error
\* "invalid refresh token", the token's session is gone from the registry,
\* no token is issued and no session added, and every other session is
\* left as it was.
C24_FailedVerificationRevokes ==
    [][\A t \in Threads :
         (/\ RefreshVerify(t)
          /\ loc[t].tokenHash \in DOMAIN sessions
          /\ ~DecodeOK(RefreshTokenAuth, req[t].cookies["refresh_token"]))
         => /\ pc'[t] = "idle"
            /\ out'.req = req[t]
            /\ out'.resp.status = 401
            /\ out'.resp.err = "invalid refresh token"
            /\ DOMAIN sessions' = DOMAIN sessions \ {loc[t].tokenHash}
            /\ \A k \in DOMAIN sessions' : sessions'[k] = sessions[k]
            /\ nextTokenID' = nextTokenID
            /\ issuedRefresh' = issuedRefresh]_vars

\* a registered token was refused by the verification and lost its session
\* while another session stayed registered
C24_Witness ==
    /\ out.req.op = "refresh"
    /\ out.resp.err = "invalid refresh token"
    /\ RefreshCookie(out.req) \in issuedRefresh
    /\ ~Registered(RefreshCookie(out.req))
    /\ \E k \in DOMAIN sessions : sessions[k].Username = AdminUsername

\* C21: RevokeSession is an idempotent delete: a call with a key that is
\* not registered leaves the registry as it is, a second call with the
\* same key changes nothing more, and a call removes the entry under its
\* key and no other and alters no entry.
C21_RevokeSessionIdempotent ==
    /\ [][\A k \in RevokeKeys :
            RevokeSessionCall(k) =>
               /\ (k \notin DOMAIN sessions => sessions' = sessions)
               /\ DOMAIN sessions' = DOMAIN sessions \ {k}
               /\ \A h \in DOMAIN sessions' : sessions'[h] = sessions[h]
               /\ RevokeSession(sessions', k) = sessions']_vars
    /\ [](\A k \in RevokeKeys :
            RevokeSession(RevokeSession(sessions, k), k) = RevokeSession(sessions, k))

\* RevokeSession was called with a registered key while another session of
\* the same user stayed registered, and with a key that was not registered
C21_Witness ==
    /\ \E r \in revokedOne :
          /\ r.found
          /\ r.tokenHash \notin DOMAIN sessions
          /\ \E h \in DOMAIN sessions :
                \E tok \in issuedRefresh :
                   /\ hashToken(tok) = r.tokenHash
                   /\ sessions[h].Username = tok.claims.username
    /\ \E r \in revokedOne : ~r.found

\* C28: a revocation is not undone by a refresh in flight: no token that
\* was revoked while registered, by RevokeSession or by
\* RevokeAllUserSessions, has a successor that is registered.
C28_RevocationNotUndone ==
    \A T \in DOMAIN successors :
       (\/ T \in revokedAll
        \/ [tokenHash |-> hashToken(T), found |-> TRUE] \in revokedOne)
          => \A N \in successors[T] : ~Registered(N)

\* C23: when the listing succeeds, EnsureTraefik returns an error and
\* changes nothing if no container is named hubble-traefik; if that
\* container is running it returns nil and issues no start; if it exists
\* and is not running it issues exactly one start, for that container, and
\* returns nil or the start's error.
C23_EnsureTraefikChecksNamedContainer ==
    [][(EnsureTraefik /\ ensure'.err # "failed to list containers") =>
         LET named == { i \in DOMAIN containers :
                          containers[i].Name = << TraefikContainerName >> }
         IN  /\ named = {} =>
                   /\ ensure'.err # ""
                   /\ ensure'.started = << >>
                   /\ containers' = containers
             /\ \A i \in named :
                   /\ containers[i].State = "running" =>
                         /\ ensure'.err = ""
                         /\ ensure'.started = << >>
                   /\ containers[i].State # "running" =>
                         /\ ensure'.started = << i >>
                         /\ ensure'.err \in {"", "failed to start Traefik"}]_vars

\* C26: every access to the session map follows the reader/writer
\* discipline: a goroutine inside a section holds the lock the section
\* takes, exclusive for inserts, deletes and the sweep and shared for the
\* lookup and the count; the map changes only in a step of the goroutine
\* that holds the exclusive lock; and while a goroutine is inside a
\* writing section no other goroutine is inside any section.
C26_LockDiscipline ==
    /\ [](\A g \in Goroutines :
            Inside(g) =>
               IF AccessKind(lk[g].op) = "write"
               THEN mu.writer = g /\ mu.readers = {}
               ELSE g \in mu.readers /\ mu.writer = "")
    /\ [](\A g \in Goroutines :
            (Inside(g) /\ AccessKind(lk[g].op) = "write") =>
               \A h \in Goroutines \ {g} : ~Inside(h))
    /\ [][sessions' # sessions =>
            \E g \in Goroutines :
               /\ mu.writer = g
               /\ lk[g].phase = "held"
               /\ lk'[g].phase = "accessed"]_vars

\* the sweep has removed the stale session inside its section, holding the
\* exclusive lock
C26_Witness ==
    /\ lk["cleanup"].phase = "accessed"
    /\ mu.writer = "cleanup"
    /\ now = MaxTime
    /\ ~Registered(FirstRefreshToken)
    /\ \A k \in DOMAIN sessions : sessions[k].CreatedAt = MaxTime

=============================================================================
